---- MODULE Spec2Model ----
(***************************************************************************)
(* Model of the YouTube desktop downloader (src/main.pyw): the proxy       *)
(* scrubbing scope no_proxies(), the input classifier, the search and      *)
(* resolve handlers, the selection handlers and the download with its      *)
(* progress callback.                                                      *)
(*                                                                         *)
(* A Python str is a sequence of tokens (each token a piece of text), so   *)
(* that strip, startswith, "in", replace and concatenation are computed.   *)
(* "" is << >>.  Python's None is the value None below, which no modelled  *)
(* string equals.                                                          *)
(*                                                                         *)
(* The program is single threaded.  QApplication.processEvents() runs the  *)
(* handlers of the pending events before it returns, so a handler that     *)
(* calls it is suspended with its frame on `stack` while other handlers    *)
(* run to completion above it.                                             *)
(***************************************************************************)
EXTENDS Integers, Sequences, FiniteSets, TLC

VARIABLES
    env,            \* os.environ restricted to the six proxy variables
    env0,           \* history: the environment the process started with
    results,        \* self.results
    results_list,   \* self.results_list: the texts of the rows
    currentRow,     \* self.results_list.currentRow(), -1 when there is none
    direct_entry,   \* self.direct_entry
    selected_title, \* self.selected_title_label
    selected_url,   \* self.selected_url_label
    status,         \* self.status_label
    progress,       \* self.progress_bar.value()
    progress_label, \* self.progress_label
    quality,        \* self.quality_combo.currentIndex()
    download_dir,   \* self.download_dir
    stack,          \* the suspended and running handlers, innermost last
    raised,         \* the exception that escaped a handler, None when none did
    last            \* history: the step just taken and what it started from

vars == <<env, env0, results, results_list, currentRow, direct_entry,
          selected_title, selected_url, status, progress, progress_label,
          quality, download_dir, stack, raised, last>>

-----------------------------------------------------------------------------
(* Bounds and program constants *)

MaxDepth == 2

SEARCH_LIMIT == 25

MaxEntries == SEARCH_LIMIT + 1

-----------------------------------------------------------------------------
(* Python values *)

None == <<"<None>">>

Str(t) == <<t>>

Truthy(x) == x # None /\ x # << >>

\* Python's `a or b`
Or(a, b) == IF Truthy(a) THEN a ELSE b

Whitespace == {" ", "\t", "\n"}

RECURSIVE LStrip(_)
LStrip(s) == IF s # << >> /\ Head(s) \in Whitespace THEN LStrip(Tail(s)) ELSE s

RECURSIVE RStrip(_)
RStrip(s) ==
    IF s # << >> /\ s[Len(s)] \in Whitespace
    THEN RStrip(SubSeq(s, 1, Len(s) - 1))
    ELSE s

\* str.strip()
Strip(s) == RStrip(LStrip(s))

\* str.startswith(p) for a one-token prefix p
StartsWith(s, p) == s # << >> /\ Head(s) = p

\* `p in s` for a one-token p
Contains(s, p) == \E i \in DOMAIN s : s[i] = p

RECURSIVE Replace(_, _, _)
\* str.replace(old, new) for a one-token old and a new of at most one token
Replace(s, old, new) ==
    IF s = << >> THEN << >>
    ELSE (IF Head(s) = old THEN new ELSE <<Head(s)>>) \o Replace(Tail(s), old, new)

\* list[i] with Python's negative indices; IndexError outside the list
IndexOk(l, i) == (i >= 0 /\ i < Len(l)) \/ (i < 0 /\ -i <= Len(l))

Index(l, i) == IF i >= 0 THEN l[i + 1] ELSE l[Len(l) + i + 1]

-----------------------------------------------------------------------------
(* no_proxies() *)

ProxyVars == {"HTTP_PROXY", "HTTPS_PROXY", "http_proxy", "https_proxy"}

NoProxyVars == {"NO_PROXY", "no_proxy"}

EnvVars == ProxyVars \cup NoProxyVars

Star == Str("*")

\* lines 39-46: the saved dict; pop() for the four proxies, get() for the two
\* no-proxy variables.  A variable that is not set reads as None.
SavedOf(e) == [k \in EnvVars |-> e[k]]

\* EnvEntered without the pop of https_proxy
EnvEnteredKeepsLower(e) ==
    [k \in EnvVars |->
        IF k \in {"HTTP_PROXY", "HTTPS_PROXY", "http_proxy"} THEN None
        ELSE IF k \in NoProxyVars THEN Star
        ELSE e[k]]

\* lines 39-48: the environment once the scope is entered
EnvEntered(e) == [k \in EnvVars |-> IF k \in ProxyVars THEN None ELSE Star]

\* EnvExited without the else branch of lines 58-59
EnvExitedNoPop(e, saved) ==
    [k \in EnvVars |-> IF saved[k] # None THEN saved[k] ELSE e[k]]

\* lines 51-59: the finally block
EnvExited(e, saved) ==
    [k \in EnvVars |->
        IF k \in ProxyVars
        THEN (IF saved[k] # None THEN saved[k] ELSE e[k])
        ELSE (IF saved[k] # None THEN saved[k] ELSE None)]

-----------------------------------------------------------------------------
(* looks_like_url and _extract_video_id *)

\* looks_like_url without the test of line 69
looks_like_url_scheme_only(text0) ==
    LET text == Strip(text0) IN
    \/ StartsWith(text, "http://")
    \/ StartsWith(text, "https://")

looks_like_url(text0) ==
    LET text == Strip(text0) IN
    \/ StartsWith(text, "http://")
    \/ StartsWith(text, "https://")
    \/ Contains(text, "youtube.com")
    \/ Contains(text, "youtu.be")

Schemes == {"http://", "https://"}

Delims == {"/", "?", "#"}

RECURSIVE TakeUntil(_, _)
\* the tokens of s before the first token in D
TakeUntil(s, D) ==
    IF s = << >> \/ Head(s) \in D THEN << >>
    ELSE <<Head(s)>> \o TakeUntil(Tail(s), D)

RECURSIVE DropUntil(_, _)
\* s from its first token in D on, << >> when there is none
DropUntil(s, D) ==
    IF s = << >> \/ Head(s) \in D THEN s ELSE DropUntil(Tail(s), D)

RECURSIVE LStripSlash(_)
LStripSlash(s) ==
    IF s # << >> /\ Head(s) = "/" THEN LStripSlash(Tail(s)) ELSE s

\* urlparse(url).hostname: there is a host only after a scheme and "//"
Hostname(url) ==
    IF url # << >> /\ Head(url) \in Schemes
    THEN TakeUntil(Tail(url), Delims)
    ELSE None

\* urlparse(url).path
UrlPath(url) ==
    IF url # << >> /\ Head(url) \in Schemes
    THEN TakeUntil(DropUntil(Tail(url), Delims), {"?", "#"})
    ELSE TakeUntil(url, {"?", "#"})

\* urlparse(url).query
UrlQuery(url) ==
    LET q == DropUntil(url, {"?", "#"}) IN
    IF q # << >> /\ Head(q) = "?" THEN TakeUntil(Tail(q), {"#"}) ELSE << >>

\* parse_qs(query)["v"][0], None when there is no v
QueryV(q) ==
    LET r == DropUntil(q, {"v="}) IN
    IF r = << >> THEN None
    ELSE IF TakeUntil(Tail(r), {"&"}) = << >> THEN None
    ELSE TakeUntil(Tail(r), {"&"})

_extract_video_id(url) ==
    LET host == Hostname(url) IN
    IF host = Str("youtu.be") THEN LStripSlash(UrlPath(url))
    ELSE IF Contains(Or(host, << >>), "youtube.com") /\ QueryV(UrlQuery(url)) # None
         THEN QueryV(UrlQuery(url))
    ELSE << >>

-----------------------------------------------------------------------------
(* The result items *)

NoTitle == Str("(no title)")

WatchPrefix == Str("https://www.youtube.com/watch?v=")

Item(title, url, id) == [title |-> title, url |-> url, id |-> id]

\* lines 535-540: the url of one entry
EntryUrl(e) == IF Truthy(e.id) THEN WatchPrefix \o e.id ELSE e.url

\* lines 541-542: the entry is skipped
EntrySkipped(e) == ~Truthy(EntryUrl(e))

\* lines 535-543: the item of an entry that is kept
EntryItem(e) == Item(Or(e.title, NoTitle), EntryUrl(e), Or(e.id, << >>))

\* f"{idx:02d}. {title}"
RowText(idx, title) ==
    (IF idx < 10 THEN <<"0", ToString(idx)>> ELSE <<ToString(idx)>>)
        \o <<". ">> \o title

RECURSIVE BuildResults(_, _)
\* lines 534-546: self.results after the loop over entries[idx..]
BuildResults(entries, idx) ==
    IF idx > Len(entries) THEN << >>
    ELSE (IF EntrySkipped(entries[idx])
          THEN << >>
          ELSE <<EntryItem(entries[idx])>>) \o BuildResults(entries, idx + 1)

RECURSIVE BuildRows(_, _)
\* lines 534-546: the rows of self.results_list after the loop
BuildRows(entries, idx) ==
    IF idx > Len(entries) THEN << >>
    ELSE (IF EntrySkipped(entries[idx])
          THEN << >>
          ELSE <<RowText(idx, EntryItem(entries[idx]).title)>>)
         \o BuildRows(entries, idx + 1)

\* lines 579-584: the entry of a resolved URL
ResolvedItem(info, url) ==
    Item(Or(info.title, NoTitle), url,
         Or(Or(info.id, _extract_video_id(url)), << >>))

-----------------------------------------------------------------------------
(* Selection display *)

NoVideoSelected == Str("No video selected.")

Labels(t, u, x) == [title |-> t, url |-> u, exc |-> x]

\* on_selection_changed without `row >= len(self.results)`
on_selection_changed_no_upper(row, res, cur) ==
    IF row < 0
    THEN Labels(NoVideoSelected, << >>, cur.exc)
    ELSE IF ~IndexOk(res, row) THEN Labels(cur.title, cur.url, Str("IndexError"))
    ELSE Labels(Index(res, row).title, Index(res, row).url, cur.exc)

\* lines 592-604; cur is the display before the call.  An IndexError leaves
\* the labels as they are and escapes the slot.
on_selection_changed(row, res, cur) ==
    IF row < 0 \/ row >= Len(res)
    THEN Labels(NoVideoSelected, << >>, cur.exc)
    ELSE IF ~IndexOk(res, row) THEN Labels(cur.title, cur.url, Str("IndexError"))
    ELSE Labels(Index(res, row).title, Index(res, row).url, cur.exc)

-----------------------------------------------------------------------------
(* Quality *)

FormatFast == Str("18/best[height<=480][ext=mp4]/best[height<=480]/best")

FormatBalanced == Str("22/18/best[height<=720][ext=mp4]/best[height<=720]/best")

FormatMax == Str("bestvideo+bestaudio/best")

\* _format_for_quality with the strings of 0 and 1 exchanged
_format_for_quality_swapped(idx) ==
    IF idx = 0 THEN FormatBalanced
    ELSE IF idx = 1 THEN FormatFast
    ELSE FormatMax

_format_for_quality(idx) ==
    IF idx = 0 THEN FormatFast
    ELSE IF idx = 1 THEN FormatBalanced
    ELSE FormatMax

-----------------------------------------------------------------------------
(* The progress callback's percent *)

Digits == {"0", "1", "2", "3", "4", "5", "6", "7", "8", "9"}

DigitVal(c) ==
    CASE c = "0" -> 0 [] c = "1" -> 1 [] c = "2" -> 2 [] c = "3" -> 3
      [] c = "4" -> 4 [] c = "5" -> 5 [] c = "6" -> 6 [] c = "7" -> 7
      [] c = "8" -> 8 [] c = "9" -> 9

AllDigits(s) == \A i \in DOMAIN s : s[i] \in Digits

RECURSIVE DigitsVal(_, _)
DigitsVal(s, acc) ==
    IF s = << >> THEN acc ELSE DigitsVal(Tail(s), 10 * acc + DigitVal(Head(s)))

\* float(s) for a string of the characters of whitespace, sign, digit, point
\* and others that are part of no number: [ok, neg, int] with int the integer
\* part of the magnitude.  float() skips surrounding whitespace itself.
ParseFloat(s0) ==
    LET s    == Strip(s0)
        neg  == s # << >> /\ Head(s) = "-"
        body == IF s # << >> /\ Head(s) \in {"+", "-"} THEN Tail(s) ELSE s
        ip   == TakeUntil(body, {"."})
        rest == DropUntil(body, {"."})
        fp   == IF rest = << >> THEN << >> ELSE Tail(rest)
    IN  [ok  |-> AllDigits(ip) /\ AllDigits(fp) /\ (ip # << >> \/ fp # << >>),
         neg |-> neg,
         int |-> IF AllDigits(ip) THEN DigitsVal(ip, 0) ELSE 0]

Min(a, b) == IF a < b THEN a ELSE b

Max(a, b) == IF a > b THEN a ELSE b

\* PercentValue without min(100, .)
PercentValueNoMin(percent_str) ==
    LET pstr == Replace(Replace(Strip(Or(percent_str, << >>)), "%", << >>),
                        ",", <<".">>)
        f    == ParseFloat(pstr)
        pval == IF f.ok THEN (IF f.neg THEN -f.int ELSE f.int) ELSE 0
    IN  Max(0, pval)

\* lines 662-667: pval of d["_percent_str"]
PercentValue(percent_str) ==
    LET pstr == Replace(Replace(Strip(Or(percent_str, << >>)), "%", << >>),
                        ",", <<".">>)
        f    == ParseFloat(pstr)
        pval == IF f.ok THEN (IF f.neg THEN -f.int ELSE f.int) ELSE 0
    IN  Max(0, Min(100, pval))

\* QProgressBar.setValue on a bar of range 0..100 (line 237): a value outside
\* the range is ignored
SetValue(cur, v) == IF v >= 0 /\ v <= 100 THEN v ELSE cur

-----------------------------------------------------------------------------
(* Inputs: what the user types and picks, what the backend answers *)

\* the texts of the search box: blank ones, queries, URLs
BlankTexts == { << >>, <<" ", "\t">> }

QueryTexts == { <<"cats">>, <<"see", " ", "http://", "x">> }

UrlTexts ==
    { <<" ", "https://", "youtu.be", "/", "abc", "\n">>,
      <<"www.", "youtube.com", "/", "watch", "?", "v=", "xyz">> }

InputTexts == BlankTexts \cup QueryTexts \cup UrlTexts

\* one text of each kind
FewTexts ==
    { <<" ", "\t">>, <<"cats">>,
      <<" ", "https://", "youtu.be", "/", "abc", "\n">> }

\* the texts the environment variables may hold at start
EnvValue(k) == IF k \in {"https_proxy", "no_proxy"} THEN << >> ELSE <<"v:", k>>

\* every starting environment: each variable set or not
AllEnvs ==
    { [k \in EnvVars |-> IF k \in S THEN EnvValue(k) ELSE None] :
        S \in SUBSET EnvVars }

\* the starting environments of the handlers' specification
SomeEnvs ==
    { [k \in EnvVars |-> IF k \in S THEN EnvValue(k) ELSE None] :
        S \in {{"HTTP_PROXY", "https_proxy", "no_proxy"}} }

\* the folders the picker returns; "" when it is cancelled
PickedDirs == { << >>, <<"/media/videos">> }

\* what extract_info(url, download=False) does for one URL
Ret(kind, title, id, entries) ==
    [kind |-> kind, title |-> title, id |-> id, entries |-> entries]

ResolveReturns ==
    { Ret("raise", None, None, << >>),
      Ret("nondict", None, None, << >>),
      Ret("dict", <<"Title">>, <<"abc">>, << >>),
      Ret("dict", None, None, << >>) }

Entry(id, title, url) == [id |-> id, title |-> title, url |-> url]

\* n entries as the search extractor makes them
Found(n) ==
    [i \in 1..n |-> Entry(<<"v", ToString(i)>>, <<"T", ToString(i)>>, None)]

\* entries with and without id, title and url
MixedEntries ==
    << Entry(<<"v1">>, <<"T1">>, None),
       Entry(None, <<"T">>, None),
       Entry(None, None, <<"https://", "example.org", "/", "a">>),
       Entry(<< >>, <<"U">>, << >>) >>

EntryLists == { << >>, MixedEntries, Found(MaxEntries) }

\* what extract_info(query, download=False) does for a query; a dict without
\* "entries" reads as one with none (line 528)
SearchReturns ==
    { Ret("raise", None, None, << >>),
      Ret("nondict", None, None, << >>) }
    \cup { Ret("dict", None, None, es) : es \in EntryLists }

FewSearchReturns ==
    { Ret("raise", None, None, << >>), Ret("dict", None, None, MixedEntries) }

FewResolveReturns ==
    { Ret("raise", None, None, << >>), Ret("dict", <<"Title">>, <<"abc">>, << >>) }

\* the d of a progress callback: its status and its _percent_str as characters
PercentStrs ==
    { None,
      << >>,
      <<" ", "4", "5", ".", "3", "%">>,
      <<"4", "5", ",", "9", "%">>,
      <<"1", "0", "0", ".", "0", "%">>,
      <<"1", "5", "0", "%">>,
      <<"-", "5", "%">>,
      <<"N", "/", "A">>,
      <<"4", " ", "5", "%">>,
      <<"4", "5", " ", "%">> }

HookStatuses == {"downloading", "finished", "error"}

-----------------------------------------------------------------------------
(* State *)

NoEntry == << >>

NoSnap == << >>

\* a handler's locals: arg is the text, or the url of the download; fmt, qidx
\* and outtmpl are set when lines 658-682 run; saved is no_proxies()'s dict.
\* History: prior is the environment when the scope was entered, entry is
\* what the handler was called in.
Frame(op, arg, title, entry) ==
    [op |-> op, pc |-> "events", arg |-> arg, title |-> title, fmt |-> None,
     qidx |-> -1, outtmpl |-> None, saved |-> NoSnap, prior |-> NoSnap,
     entry |-> entry]

\* what a handler was called in; text is the text of the search box
EntryResolve(text) ==
    [text |-> text, results |-> results, currentRow |-> currentRow]

EntryDownload ==
    [progress |-> progress, quality |-> quality, download_dir |-> download_dir]

Top == stack[Len(stack)]

Pop == SubSeq(stack, 1, Len(stack) - 1)

Push(f) == Append(stack, f)

ReplaceTop(f) == [stack EXCEPT ![Len(stack)] = f]

\* the handlers suspended in processEvents() (lines 510, 559, 656, 670, 674)
EventPcs == {"events", "hook_events"}

\* the event loop is dispatching: app.exec() (line 726) or a processEvents()
Dispatching == IF stack = << >> THEN TRUE ELSE Top.pc \in EventPcs

\* what the step started from
Before ==
    [results |-> results, results_list |-> results_list,
     currentRow |-> currentRow, progress |-> progress, env |-> env,
     depth |-> Len(stack)]

\* the step just taken: its kind, its input, and for the return of a handler
\* the frame that returned and what the return started from
Step(kind, arg, frame, before) ==
    [kind |-> kind, arg |-> arg, frame |-> frame, before |-> before]

InitWith(envs) ==
    /\ env \in envs
    /\ env0 = env
    /\ results = << >>
    /\ results_list = << >>
    /\ currentRow = -1
    /\ direct_entry = NoEntry
    /\ selected_title = NoVideoSelected
    /\ selected_url = << >>
    /\ status = << >>
    /\ progress = 0
    /\ progress_label = << >>
    /\ quality = 1
    /\ download_dir = <<"~/Downloads">>
    /\ stack = << >>
    /\ raised = None
    /\ last = Step("init", << >>, NoSnap, NoSnap)

Init == InitWith(SomeEnvs)

InitEnv == InitWith(AllEnvs)

-----------------------------------------------------------------------------
(* Status texts *)

MsgPrompt == Str("Type a search or paste a YouTube link.")

MsgSearching == Str("Searching YouTube...")

MsgResolving == Str("Resolving video info...")

MsgNoResults == Str("No results found.")

MsgCouldNotRead == Str("Could not read info for that link.")

MsgReady == Str("Ready to download.")

MsgSelectFirst == Str("Select a video first.")

\* str(e) of the backend's exception
ErrText == "<e>"

CurLabels == Labels(selected_title, selected_url, raised)

\* the slot after results_list.clear() (line 531, 583) and setCurrentRow(0)
\* (lines 550, 588).  clear() signals a change of selection when there was
\* one; sig is the current row the slot then reads: Qt clears the selection
\* before the current item, or both at once.
Rebuilt(res, sig) ==
    LET cleared == IF currentRow >= 0
                   THEN on_selection_changed(sig, << >>, CurLabels)
                   ELSE CurLabels
    IN  IF res # << >> THEN on_selection_changed(0, res, cleared) ELSE cleared

-----------------------------------------------------------------------------
(* Handlers *)

\* SearchText without strip()
SearchTextRaw(raw) == raw

\* line 494: the text the handler works on
SearchText(raw) == Strip(raw)

\* lines 493-503, and 509-510 or 558-559 up to processEvents()
on_search_clicked(raw) ==
    LET text == SearchText(raw) IN
    /\ Dispatching
    /\ IF ~Truthy(text)
       THEN /\ status' = MsgPrompt
            /\ last' = Step("blank", raw, NoSnap, Before)
            /\ UNCHANGED stack
       ELSE /\ Len(stack) < MaxDepth
            /\ status' = IF looks_like_url(text) THEN MsgResolving ELSE MsgSearching
            /\ stack' = Push(IF looks_like_url(text)
                             THEN Frame("resolve", text, None, EntryResolve(raw))
                             ELSE Frame("search", text, None, NoSnap))
            /\ last' = Step("other", << >>, NoSnap, NoSnap)
    /\ UNCHANGED <<env, env0, results, results_list, currentRow, direct_entry,
                   selected_title, selected_url, progress, progress_label,
                   quality, download_dir, raised>>

\* processEvents() returns (lines 510, 559, 656); the handler goes on to the
\* backend call: lines 658-682 of a download, then no_proxies() is entered
\* (lines 39-50)
CallBackend ==
    /\ stack # << >>
    /\ Top.pc = "events"
    /\ stack' = ReplaceTop(
         [Top EXCEPT !.pc = "backend",
                     !.fmt = IF Top.op = "download"
                             THEN _format_for_quality(quality) ELSE @,
                     !.qidx = IF Top.op = "download" THEN quality ELSE @,
                     !.outtmpl = IF Top.op = "download"
                                 THEN download_dir \o <<"/", "%(title)s.%(ext)s">>
                                 ELSE @,
                     !.saved = SavedOf(env),
                     !.prior = env])
    /\ env' = EnvEntered(env)
    /\ last' = Step("call_backend", << >>, NoSnap, NoSnap)
    /\ UNCHANGED <<env0, results, results_list, currentRow, direct_entry,
                   selected_title, selected_url, status, progress,
                   progress_label, quality, download_dir, raised>>

\* SearchFailed without the except clause of line 524
SearchFailedEscapes ==
    /\ raised' = Str("DownloadError")
    /\ last' = Step("search_raise", << >>, Top, Before)
    /\ UNCHANGED <<results, results_list, currentRow, direct_entry,
                   selected_title, selected_url, status>>

\* lines 524-526: the search raised
SearchFailed ==
    /\ status' = <<"Search error: ", ErrText>>
    /\ last' = Step("search_raise", << >>, Top, Before)
    /\ UNCHANGED <<results, results_list, currentRow, direct_entry,
                   selected_title, selected_url, raised>>

\* SearchDone without the clear() of lines 530-531
SearchDoneAppends(ret) ==
    \E sig \in {currentRow, -1} :
        LET entries == IF ret.kind = "dict" THEN ret.entries ELSE << >>
            res     == results \o BuildResults(entries, 1)
            shown   == Rebuilt(res, sig)
        IN  /\ results' = res
            /\ results_list' = results_list \o BuildRows(entries, 1)
            /\ direct_entry' = NoEntry
            /\ currentRow' = IF res # << >> THEN 0 ELSE -1
            /\ selected_title' = shown.title
            /\ selected_url' = shown.url
            /\ raised' = shown.exc
            /\ status' = IF res # << >>
                         THEN <<"Found ", ToString(Len(res)), " results.">>
                         ELSE MsgNoResults
            /\ last' = Step("search_done", entries, Top, Before)

\* lines 528-552: the search returned data; last.arg is the entries it read
SearchDone(ret) ==
    \E sig \in {currentRow, -1} :
        LET entries == IF ret.kind = "dict" THEN ret.entries ELSE << >>
            res     == BuildResults(entries, 1)
            shown   == Rebuilt(res, sig)
        IN  /\ results' = res
            /\ results_list' = BuildRows(entries, 1)
            /\ direct_entry' = NoEntry
            /\ currentRow' = IF res # << >> THEN 0 ELSE -1
            /\ selected_title' = shown.title
            /\ selected_url' = shown.url
            /\ raised' = shown.exc
            /\ status' = IF res # << >>
                         THEN <<"Found ", ToString(Len(res)), " results.">>
                         ELSE MsgNoResults
            /\ last' = Step("search_done", entries, Top, Before)

\* lines 520-552: extract_info returns or raises, the scope exits
SearchReturn(ret) ==
    /\ stack # << >>
    /\ Top.op = "search"
    /\ Top.pc = "backend"
    /\ env' = EnvExited(env, Top.saved)
    /\ stack' = Pop
    /\ IF ret.kind = "raise" THEN SearchFailed ELSE SearchDone(ret)
    /\ UNCHANGED <<env0, progress, progress_label, quality, download_dir>>

\* ResolveFailed with the list cleared before the backend is asked
ResolveFailedClears(ret) ==
    /\ status' = IF ret.kind = "raise"
                 THEN <<"Error resolving URL: ", ErrText>>
                 ELSE MsgCouldNotRead
    /\ last' = Step(IF ret.kind = "raise" THEN "resolve_raise"
                    ELSE "resolve_nondict", << >>, Top, Before)
    /\ results' = << >>
    /\ results_list' = << >>
    /\ currentRow' = -1
    /\ UNCHANGED <<direct_entry, selected_title, selected_url, raised>>

\* lines 571-577: the resolution raised, or returned no dict
ResolveFailed(ret) ==
    /\ status' = IF ret.kind = "raise"
                 THEN <<"Error resolving URL: ", ErrText>>
                 ELSE MsgCouldNotRead
    /\ last' = Step(IF ret.kind = "raise" THEN "resolve_raise"
                    ELSE "resolve_nondict", << >>, Top, Before)
    /\ UNCHANGED <<results, results_list, currentRow, direct_entry,
                   selected_title, selected_url, raised>>

\* lines 579-590: the resolution returned the video's info
ResolveDone(ret) ==
    \E sig \in {currentRow, -1} :
        LET item  == ResolvedItem(ret, Top.arg)
            shown == Rebuilt(<<item>>, sig)
        IN  /\ results' = <<item>>
            /\ results_list' = <<item.title>>
            /\ direct_entry' = <<item>>
            /\ currentRow' = 0
            /\ selected_title' = shown.title
            /\ selected_url' = shown.url
            /\ raised' = shown.exc
            /\ status' = MsgReady
            /\ last' = Step("resolve_done", << >>, Top, Before)

\* lines 567-590: extract_info returns or raises, the scope exits
ResolveReturn(ret) ==
    /\ stack # << >>
    /\ Top.op = "resolve"
    /\ Top.pc = "backend"
    /\ env' = EnvExited(env, Top.saved)
    /\ stack' = Pop
    /\ IF ret.kind # "dict" THEN ResolveFailed(ret) ELSE ResolveDone(ret)
    /\ UNCHANGED <<env0, progress, progress_label, quality, download_dir>>

\* the rows the user clicks: the first and the last
ClickRows ==
    {r \in {0, Len(results_list) - 1} : r >= 0 /\ r < Len(results_list)}

\* the user makes row r current; itemSelectionChanged runs lines 592-604
SelectRow(r) ==
    /\ Dispatching
    /\ r \in ClickRows
    /\ r # currentRow
    /\ currentRow' = r
    /\ LET shown == on_selection_changed(r, results, CurLabels) IN
        /\ selected_title' = shown.title
        /\ selected_url' = shown.url
        /\ raised' = shown.exc
    /\ last' = Step("select", << >>, NoSnap, NoSnap)
    /\ UNCHANGED <<env, env0, results, results_list, direct_entry, status,
                   progress, progress_label, quality, download_dir, stack>>

\* lines 606-614; directory is what the picker returned
on_choose_dir_clicked(directory) ==
    /\ Dispatching
    /\ download_dir' = IF Truthy(directory) THEN directory ELSE download_dir
    /\ last' = Step("other", << >>, NoSnap, NoSnap)
    /\ UNCHANGED <<env, env0, results, results_list, currentRow, direct_entry,
                   selected_title, selected_url, status, progress,
                   progress_label, quality, stack, raised>>

\* the user picks another entry of the quality combo (lines 202-210)
SetQuality(idx) ==
    /\ Dispatching
    /\ idx # quality
    /\ quality' = idx
    /\ last' = Step("other", << >>, NoSnap, NoSnap)
    /\ UNCHANGED <<env, env0, results, results_list, currentRow, direct_entry,
                   selected_title, selected_url, status, progress,
                   progress_label, download_dir, stack, raised>>

\* line 621: there is no row to download
NoRow(row, res) == row < 0 \/ row >= Len(res)

\* lines 616-628, and 653-656 up to processEvents()
on_download_selected ==
    LET row == currentRow IN
    /\ Dispatching
    /\ IF NoRow(row, results)
       THEN /\ status' = MsgSelectFirst
            /\ last' = Step("download_noselect", << >>, NoSnap, Before)
            /\ UNCHANGED <<stack, progress, progress_label, raised>>
       ELSE IF ~IndexOk(results, row)
       THEN /\ raised' = Str("IndexError")
            /\ last' = Step("download_error", << >>, NoSnap, Before)
            /\ UNCHANGED <<stack, status, progress, progress_label>>
       ELSE /\ Len(stack) < MaxDepth
            /\ status' = <<"Downloading: ">> \o Index(results, row).title
            /\ progress' = SetValue(progress, 0)
            /\ progress_label' = Str("0%")
            /\ stack' = Push(Frame("download", Index(results, row).url,
                                   Index(results, row).title, EntryDownload))
            /\ last' = Step("other", << >>, NoSnap, NoSnap)
            /\ UNCHANGED raised
    /\ UNCHANGED <<env, env0, results, results_list, currentRow, direct_entry,
                   selected_title, selected_url, quality, download_dir>>

\* lines 660-674: the backend calls the hook during ydl.download
progress_hook(d_status, percent_str) ==
    /\ stack # << >>
    /\ Top.op = "download"
    /\ Top.pc = "backend"
    /\ IF d_status = "downloading"
       THEN /\ progress' = SetValue(progress, PercentValue(percent_str))
            /\ progress_label' = <<ToString(PercentValue(percent_str)), "%">>
            /\ stack' = ReplaceTop([Top EXCEPT !.pc = "hook_events"])
            /\ last' = Step("hook_downloading", percent_str, NoSnap, NoSnap)
       ELSE IF d_status = "finished"
       THEN /\ progress' = SetValue(progress, 100)
            /\ progress_label' = Str("Processing file...")
            /\ stack' = ReplaceTop([Top EXCEPT !.pc = "hook_events"])
            /\ last' = Step("hook_finished", << >>, NoSnap, NoSnap)
       ELSE /\ last' = Step("hook_other", << >>, NoSnap, NoSnap)
            /\ UNCHANGED <<progress, progress_label, stack>>
    /\ UNCHANGED <<env, env0, results, results_list, currentRow, direct_entry,
                   selected_title, selected_url, status, quality, download_dir,
                   raised>>

\* processEvents() returns in the hook (lines 670, 674), the hook returns
HookReturn ==
    /\ stack # << >>
    /\ Top.pc = "hook_events"
    /\ stack' = ReplaceTop([Top EXCEPT !.pc = "backend"])
    /\ last' = Step("other", << >>, NoSnap, NoSnap)
    /\ UNCHANGED <<env, env0, results, results_list, currentRow, direct_entry,
                   selected_title, selected_url, status, progress,
                   progress_label, quality, download_dir, raised>>

\* DownloadFailed with the bar put back to 0
DownloadFailedResets ==
    /\ status' = <<"Download error: ", ErrText>>
    /\ progress_label' = << >>
    /\ last' = Step("download_raise", << >>, Top, Before)
    /\ progress' = SetValue(progress, 0)

\* lines 688-691: the download raised
DownloadFailed ==
    /\ status' = <<"Download error: ", ErrText>>
    /\ progress_label' = << >>
    /\ last' = Step("download_raise", << >>, Top, Before)
    /\ UNCHANGED progress

\* lines 693-695: the download returned
DownloadDone ==
    /\ status' = <<"Downloaded to: ">> \o download_dir
    /\ progress' = SetValue(progress, 100)
    /\ progress_label' = Str("Done")
    /\ last' = Step("download_done", << >>, Top, Before)

\* lines 684-695: ydl.download returns or raises, the scope exits
DownloadReturn(ok) ==
    /\ stack # << >>
    /\ Top.op = "download"
    /\ Top.pc = "backend"
    /\ env' = EnvExited(env, Top.saved)
    /\ stack' = Pop
    /\ IF ok THEN DownloadDone ELSE DownloadFailed
    /\ UNCHANGED <<env0, results, results_list, currentRow, direct_entry,
                   selected_title, selected_url, quality, download_dir, raised>>

-----------------------------------------------------------------------------
(* Specifications *)

\* the download: its quality and its progress callback with the
\* percent strings in full, after a search that finds videos or fails
Next ==
    \/ on_search_clicked(<<"cats">>)
    \/ CallBackend
    \/ \E ret \in FewSearchReturns : SearchReturn(ret)
    \/ \E idx \in 0..2 : SetQuality(idx)
    \/ on_download_selected
    \/ \E st \in HookStatuses, p \in PercentStrs : progress_hook(st, p)
    \/ HookReturn
    \/ \E ok \in BOOLEAN : DownloadReturn(ok)

Spec == Init /\ [][Next]_vars

\* the search box, the result list and the selection; the texts and the
\* backend's answers in full
NextSearch ==
    \/ \E raw \in InputTexts : on_search_clicked(raw)
    \/ CallBackend
    \/ \E ret \in SearchReturns : SearchReturn(ret)
    \/ \E ret \in ResolveReturns : ResolveReturn(ret)
    \/ \E r \in 0..MaxEntries : SelectRow(r)
    \/ on_download_selected
    \/ \E ok \in BOOLEAN : DownloadReturn(ok)

SpecSearch == Init /\ [][NextSearch]_vars

\* the handlers that call the backend, from every starting environment
NextEnv ==
    \/ \E raw \in FewTexts : on_search_clicked(raw)
    \/ CallBackend
    \/ \E ret \in FewSearchReturns : SearchReturn(ret)
    \/ \E ret \in FewResolveReturns : ResolveReturn(ret)
    \/ on_download_selected
    \/ progress_hook("finished", None)
    \/ HookReturn
    \/ \E ok \in BOOLEAN : DownloadReturn(ok)

SpecEnv == InitEnv /\ [][NextEnv]_vars

\* the handlers that can run while a download is in progress: another
\* search, a row click, a quality or folder change, another download
NextInterleave ==
    \/ on_search_clicked(<<"cats">>)
    \/ CallBackend
    \/ SearchReturn(Ret("dict", None, None, MixedEntries))
    \/ \E r \in 0..1 : SelectRow(r)
    \/ \E idx \in 1..2 : SetQuality(idx)
    \/ \E directory \in PickedDirs : on_choose_dir_clicked(directory)
    \/ on_download_selected
    \/ progress_hook("downloading", <<" ", "4", "5", ".", "3", "%">>)
    \/ HookReturn
    \/ \E ok \in BOOLEAN : DownloadReturn(ok)

SpecInterleave == Init /\ [][NextInterleave]_vars

-----------------------------------------------------------------------------
(* Properties *)

ExitKinds ==
    {"search_raise", "search_done", "resolve_raise", "resolve_nondict",
     "resolve_done", "download_raise", "download_done"}

\* the backend call of frame f is running
InCall(f) == f.pc \in {"backend", "hook_events"}

\* C1: when a no_proxies() scope exits, by return or by exception, each of
\* the six variables has the value it had when the scope was entered, or is
\* absent if it was absent then; with no scope left open the environment is
\* the one the process started with, so nested scopes restore it too.
C1_EnvRestored ==
    /\ last.kind \in ExitKinds =>
          \A k \in EnvVars : env[k] = last.frame.prior[k]
    /\ stack = << >> => env = env0

\* a download raised with nothing else running, and the environment is back
\* to one with variables set (one to the empty string) and variables absent
C1_Witness ==
    /\ last.kind = "download_raise"
    /\ stack = << >>
    /\ env["HTTP_PROXY"] = <<"v:", "HTTP_PROXY">>
    /\ env["HTTPS_PROXY"] = None
    /\ env["https_proxy"] = << >>
    /\ env["NO_PROXY"] = None
    /\ env["no_proxy"] = << >>

\* C2: while a backend call runs (search, resolution or download, the
\* callbacks of a download and the handlers they let run included), the four
\* proxy variables are absent and NO_PROXY and no_proxy are "*".
C2_ScrubbedDuringCall ==
    (\E i \in DOMAIN stack : InCall(stack[i])) =>
        /\ \A k \in ProxyVars : env[k] = None
        /\ \A k \in NoProxyVars : env[k] = Star

\* a resolution that ran inside a download's callback has returned, the
\* download goes on, and the process started with all six variables set
C2_Witness ==
    /\ last.kind = "resolve_done"
    /\ Len(stack) = 1
    /\ Top.op = "download"
    /\ Top.pc = "hook_events"
    /\ \A k \in EnvVars : env0[k] # None

\* the claim's words for an input that is a URL
ClassifiedUrl(text) ==
    LET t == Strip(text) IN
    \/ t # << >> /\ t[1] \in {"http://", "https://"}
    \/ \E i \in DOMAIN t : t[i] \in {"youtube.com", "youtu.be"}

\* the handler of every non-blank input takes the resolve path when the
\* input is a URL and the search path when it is not
PathByClass ==
    \A i \in DOMAIN stack :
        stack[i].op \in {"search", "resolve"} =>
            (stack[i].op = "resolve" <=> ClassifiedUrl(stack[i].arg))

ResolveFailKinds == {"resolve_raise", "resolve_nondict"}

ResolveKinds == ResolveFailKinds \cup {"resolve_done"}

\* C3 as stated: a URL input takes the resolve path, after which the list
\* holds at most one item, and on success exactly the item of the input.
C3_Original ==
    /\ PathByClass
    /\ last.kind \in ResolveKinds => Len(results) <= 1
    /\ last.kind = "resolve_done" =>
          /\ Len(results) = 1
          /\ results[1].url = Strip(last.frame.entry.text)

\* C3 as amended: a URL input takes the resolve path and never the search
\* path; a successful resolution leaves exactly one item, whose url is the
\* input text without the surrounding whitespace, as the current row; a
\* failed one leaves the list it found, which may hold more than one item.
C3_ResolvePath ==
    /\ PathByClass
    /\ last.kind = "resolve_done" =>
          /\ Len(results) = 1
          /\ Len(results_list) = 1
          /\ currentRow = 0
          /\ results[1].url = Strip(last.frame.entry.text)
          /\ direct_entry = <<results[1]>>
    /\ last.kind \in ResolveFailKinds => results = last.before.results

\* a padded URL was resolved while the list held two found videos
C3_Witness ==
    /\ last.kind = "resolve_done"
    /\ last.frame.entry.text = <<" ", "https://", "youtu.be", "/", "abc", "\n">>
    /\ Len(last.before.results) = 2
    /\ results[1].url = <<"https://", "youtu.be", "/", "abc">>

\* C4 as stated: after a search the list has at most SEARCH_LIMIT items,
\* whatever entries the backend returned, and every item has a url.
C4_Original ==
    /\ PathByClass
    /\ last.kind = "search_done" =>
          /\ Len(results) <= SEARCH_LIMIT
          /\ \A i \in DOMAIN results : Truthy(results[i].url)

\* C5 as stated: after a failed resolution there is a message and the list
\* and the current row are what they were when _search_single_url was called.
C5_Original ==
    last.kind \in ResolveFailKinds =>
        /\ status \in {<<"Error resolving URL: ", ErrText>>, MsgCouldNotRead}
        /\ results = last.frame.entry.results
        /\ currentRow = last.frame.entry.currentRow

\* C5 as amended: after a failed resolution there is a message, and the
\* list, its rows and the current row are what they were when the backend
\* call returned: the failure path changes none of them.
C5_FailureKeepsList ==
    last.kind \in ResolveFailKinds =>
        /\ status = IF last.kind = "resolve_raise"
                    THEN <<"Error resolving URL: ", ErrText>>
                    ELSE MsgCouldNotRead
        /\ results = last.before.results
        /\ results_list = last.before.results_list
        /\ currentRow = last.before.currentRow
        /\ raised = None

\* a resolution raised while the list held two videos, the second current
\* because it was clicked after _search_single_url was called
C5_Witness ==
    /\ last.kind = "resolve_raise"
    /\ Len(results) = 2
    /\ currentRow = 1
    /\ last.frame.entry.currentRow = 0

\* C9: the current row is a row of the result list or there is none, the
\* labels show that row or "No video selected." with no url, no handler
\* raises, and a download asked for without a row gives "Select a video
\* first." and starts nothing.
C9_SelectionValid ==
    /\ currentRow = -1 \/ (currentRow >= 0 /\ currentRow < Len(results))
    /\ Len(results_list) = Len(results)
    /\ raised = None
    /\ IF currentRow = -1
       THEN selected_title = NoVideoSelected /\ selected_url = << >>
       ELSE /\ selected_title = results[currentRow + 1].title
            /\ selected_url = results[currentRow + 1].url
    /\ last.kind = "download_noselect" =>
          /\ status = MsgSelectFirst
          /\ currentRow = -1
          /\ Len(stack) = last.before.depth
          /\ env = last.before.env
    /\ last.kind # "download_error"

\* a search that found nothing cleared a list that had a current row: the
\* slot ran with that row and an empty self.results
C9_Witness ==
    /\ last.kind = "search_done"
    /\ results = << >>
    /\ last.before.currentRow >= 0
    /\ selected_title = NoVideoSelected
    /\ selected_url = << >>

\* C10: a blank input gets the prompt and nothing else: no handler is
\* started for it, so no backend call, and the list, the current row and
\* the environment stay; no search or resolution ever runs on a blank text.
C10_BlankRejected ==
    /\ last.kind = "blank" =>
          /\ status = MsgPrompt
          /\ results = last.before.results
          /\ results_list = last.before.results_list
          /\ currentRow = last.before.currentRow
          /\ env = last.before.env
          /\ Len(stack) = last.before.depth
    /\ \A i \in DOMAIN stack :
          stack[i].op \in {"search", "resolve"} =>
              \E j \in DOMAIN stack[i].arg : stack[i].arg[j] \notin Whitespace

\* a whitespace-only input was rejected while the list held two videos
C10_Witness ==
    /\ last.kind = "blank"
    /\ last.arg = <<" ", "\t">>
    /\ Len(results) = 2
    /\ currentRow = 1

\* C6 as stated: after a download that raised, the bar shows what it showed
\* before the download was triggered.
C6_Original ==
    last.kind = "download_raise" =>
        /\ status = <<"Download error: ", ErrText>>
        /\ progress = last.frame.entry.progress

\* C6 as amended: a download that raises is caught and gives the message
\* "Download error: ...", the progress label is emptied, and the bar keeps
\* the value it had when the exception arrived.
C6_FailureKeepsBar ==
    last.kind = "download_raise" =>
        /\ status = <<"Download error: ", ErrText>>
        /\ progress = last.before.progress
        /\ progress_label = << >>
        /\ raised = None

\* a download raised at 45 percent; the bar was at 100 when it was triggered
C6_Witness ==
    /\ last.kind = "download_raise"
    /\ progress = 45
    /\ last.frame.entry.progress = 100

\* what each percent string of PercentStrs is to show
ExpectedPercent(p) ==
    IF p = <<" ", "4", "5", ".", "3", "%">> THEN 45
    ELSE IF p = <<"4", "5", ",", "9", "%">> THEN 45
    ELSE IF p = <<"4", "5", " ", "%">> THEN 45
    ELSE IF p = <<"1", "0", "0", ".", "0", "%">> THEN 100
    ELSE IF p = <<"1", "5", "0", "%">> THEN 100
    ELSE 0

\* C7: the bar is always in 0..100; after a "downloading" callback it shows
\* the integer part of the percent, 0 for a string that is no number (or
\* none, or a negative one) and 100 for a number above 100, and the label
\* shows the same number; after a "finished" callback it shows 100.
C7_ProgressClamped ==
    /\ progress \in 0..100
    /\ last.kind = "hook_downloading" =>
          /\ progress = ExpectedPercent(last.arg)
          /\ progress_label = <<ToString(progress), "%">>
    /\ last.kind = "hook_finished" => progress = 100

\* a callback reported 150% while the bar was below 100
C7_Witness ==
    /\ last.kind = "hook_downloading"
    /\ last.arg = <<"1", "5", "0", "%">>
    /\ progress = 100
    /\ Top.entry.progress = 45

\* the claim's table of format selectors
C8_Table(idx) ==
    CASE idx = 0 -> Str("18/best[height<=480][ext=mp4]/best[height<=480]/best")
      [] idx = 1 -> Str("22/18/best[height<=720][ext=mp4]/best[height<=720]/best")
      [] idx = 2 -> Str("bestvideo+bestaudio/best")

FailureKinds ==
    {"search_raise", "resolve_raise", "resolve_nondict", "download_raise"}

\* the message of each failure
FailureMessage(kind) ==
    CASE kind = "search_raise" -> <<"Search error: ", ErrText>>
      [] kind = "resolve_raise" -> <<"Error resolving URL: ", ErrText>>
      [] kind = "resolve_nondict" -> Str("Could not read info for that link.")
      [] kind = "download_raise" -> <<"Download error: ", ErrText>>

\* C11: a backend failure in a search, a resolution or a download gives its
\* status message and nothing escapes: the handler has returned (its frame
\* is gone, the environment is the one it found), the event loop is
\* dispatching again and takes a further search, a further download and,
\* where there is another row, a further selection.
C11_FailureNotFatal ==
    /\ raised = None
    /\ last.kind \in FailureKinds =>
          /\ status = FailureMessage(last.kind)
          /\ Len(stack) = last.before.depth - 1
          /\ env = last.frame.prior
          /\ Dispatching
          /\ ENABLED on_search_clicked(<<"cats">>)
          /\ ENABLED on_download_selected
          /\ Len(results) >= 2 => \E r \in ClickRows : ENABLED SelectRow(r)

\* a row was made current after a search had failed: the message of the
\* failure is still shown
C11_Witness ==
    /\ last.kind = "select"
    /\ status = <<"Search error: ", ErrText>>
    /\ currentRow = 1

SearchFailKinds == {"search_raise", "resolve_raise", "resolve_nondict"}

\* C12 as stated: after every search or resolve operation the list holds
\* the items that operation produced and no other: those of the entries a
\* search read, the one video a resolution read, none after a failure.
C12_Original ==
    /\ last.kind = "search_done" => results = BuildResults(last.arg, 1)
    /\ last.kind = "resolve_done" =>
          /\ Len(results) = 1
          /\ results[1].url = last.frame.arg
    /\ last.kind \in SearchFailKinds => results = << >>

\* C12 as amended: a search or a resolution whose backend call succeeds
\* clears the list and rebuilds it: the list and its rows are those of the
\* entries the search read, or the one video the resolution read, and hold
\* nothing of the list before; one whose backend call fails clears nothing:
\* the list and its rows stay those of the search before.
C12_RebuiltOnSuccess ==
    /\ last.kind = "search_done" =>
          /\ results = BuildResults(last.arg, 1)
          /\ results_list = BuildRows(last.arg, 1)
    /\ last.kind = "resolve_done" =>
          /\ Len(results) = 1
          /\ results[1].url = last.frame.arg
          /\ results_list = <<results[1].title>>
    /\ last.kind \in SearchFailKinds =>
          /\ results = last.before.results
          /\ results_list = last.before.results_list

\* a search that read the four mixed entries replaced a list of MaxEntries
\* videos by its own two
C12_Witness ==
    /\ last.kind = "search_done"
    /\ Len(last.before.results) = MaxEntries
    /\ last.arg = MixedEntries
    /\ Len(results) = 2

\* the output template of a download into directory d (line 679)
C13_Template(d) == d \o <<"/", "%(title)s.%(ext)s">>

\* C13 as stated: whatever handlers run while a download is in progress,
\* the download is made with the url, the format and the folder that were
\* current when it was triggered, and it reports that folder when it is done.
C13_Original ==
    /\ \A i \in DOMAIN stack :
          (stack[i].op = "download" /\ InCall(stack[i])) =>
              /\ stack[i].fmt = _format_for_quality(stack[i].entry.quality)
              /\ stack[i].outtmpl = C13_Template(stack[i].entry.download_dir)
    /\ last.kind = "download_done" =>
          status = <<"Downloaded to: ">> \o last.frame.entry.download_dir

TypeOK ==
    /\ currentRow \in -1..MaxEntries
    /\ progress \in Int
    /\ quality \in 0..2
    /\ Len(stack) <= MaxDepth

====
